---- MODULE Spec2Model ----
(***************************************************************************)
(* awx: credential resolution for a named AWS profile and delegation of a  *)
(* downstream `aws` command (src/src/main.rs).                             *)
(*                                                                         *)
(* Rust's Option<T> is modelled as a sequence of length at most one:       *)
(* None is << >> and Some(v) is <<v>>.  Strings the program parses (MFA    *)
(* codes, ARNs, account ids, downstream arguments) are sequences of        *)
(* one-character strings; names it only compares or passes on are TLA+     *)
(* strings.  A credential value is a tuple naming where the value comes    *)
(* from; the empty string is << >>.                                        *)
(***************************************************************************)
EXTENDS Integers, Sequences, FiniteSets, TLC

VARIABLES
    profiles,               \* HashMap<String, Profile> built by load_profiles
    opts,                   \* the parsed command line (struct Opt)
    environ,                \* the ambient process environment
    pc,                     \* position of run() / main()
    selected_profile_name,  \* Option<String>
    profile,                \* Option<Profile>: the selected profile
    mfa_profile,            \* get_session_token_interactive: argument `profile`
    mfa_serial,             \* get_session_token_interactive: argument `mfa_serial`
    mfa_caller,             \* which call site of run() the acquisition returns to
    attempt,                \* loop variable of `for attempt in 1..=3`
    code,                   \* the MFA code as read from the prompt (untrimmed)
    base_temp,              \* Option<StsCredentials>: session token of the source
    final_creds,            \* Option<StsCredentials>
    calls,                  \* history: external calls and prompts, in order
    last,                   \* how the most recent external call or prompt ended
    error,                  \* Option<String>: the error run() returned
    exit_code,              \* Option<i32>: the exit status of the process
    child_env,              \* Option: the environment the delegate was spawned with
    child,                  \* the delegate process: its state and ExitStatus
    pending,                \* signals delivered to awx and not yet taken by select!
    sent,                   \* signals awx sent to the delegate's pid, in order
    taken,                  \* Option: the branch of select! that completed
    call_env,               \* Option: the environment of the assume-role call
                            \* made with a credential overlay
    aws_dir                 \* Option: the config and credentials files, while
                            \* load_profiles_from_dir reads them

vars == <<profiles, opts, environ, pc, selected_profile_name, profile,
          mfa_profile, mfa_serial, mfa_caller, attempt, code, base_temp,
          final_creds, calls, last, error, exit_code,
          child_env, child, pending, sent, taken, call_env, aws_dir>>

\* the variables of run_aws_child_capture
delegate_vars == <<child_env, child, pending, sent, taken>>

-----------------------------------------------------------------------------
(* Option<T> *)

None == << >>

Some(v) == <<v>>

is_some(o) == o # None

unwrap(o) == o[1]

-----------------------------------------------------------------------------
(* Bounds of the model *)

\* account ids the identity service may report: "1" .. NumAccounts
NumAccounts == 2

\* distinct credential sets the identity service may hand out per operation
NumCreds == 1

\* the delegate's normal exit codes: 0 .. MaxChildCode
MaxChildCode == 2

\* `for attempt in 1..=3`
MaxAttempts == 3

\* `code.len() != 6`
CodeLen == 6

Digit == <<"0", "1", "2", "3", "4", "5", "6", "7", "8", "9">>

-----------------------------------------------------------------------------
(* struct Profile and its capability predicates *)

Profile(name, role_arn, source_profile, mfa, sso_start_url, sso_region, ak, sk) ==
    [ name                  |-> name,
      region                |-> None,
      sso_start_url         |-> sso_start_url,
      sso_region            |-> sso_region,
      role_arn              |-> role_arn,
      source_profile        |-> source_profile,
      mfa_serial            |-> mfa,
      aws_access_key_id     |-> ak,
      aws_secret_access_key |-> sk,
      aws_session_token     |-> None ]

is_sso(p) == is_some(p.sso_start_url) \/ is_some(p.sso_region)

is_role(p) == is_some(p.role_arn)

is_static(p) == is_some(p.aws_access_key_id) /\ is_some(p.aws_secret_access_key)

requires_mfa(p) == is_some(p.mfa_serial)

\* HashMap::get
get(map, key) == IF key \in DOMAIN map THEN Some(map[key]) ELSE None

-----------------------------------------------------------------------------
(* Strings the program parses *)

IsWhitespace(c) == c \in {" ", "\t", "\n"}

is_ascii_digit(c) == \E i \in 1..Len(Digit) : Digit[i] = c

RECURSIVE trim_start(_)
trim_start(s) ==
    IF s # << >> /\ IsWhitespace(Head(s)) THEN trim_start(Tail(s)) ELSE s

RECURSIVE trim_end(_)
trim_end(s) ==
    IF s # << >> /\ IsWhitespace(s[Len(s)])
    THEN trim_end(SubSeq(s, 1, Len(s) - 1))
    ELSE s

\* str::trim
trim(s) == trim_end(trim_start(s))

\* the format check without its length test
code_ok_any_length(c) == \A i \in 1..Len(c) : is_ascii_digit(c[i])

\* the format check of the prompt loop, on the trimmed code
code_ok(c) == (\A i \in 1..Len(c) : is_ascii_digit(c[i])) /\ Len(c) = CodeLen

\* str::split(':'), collected
RECURSIVE split(_)
split(s) ==
    IF \E i \in 1..Len(s) : s[i] = ":"
    THEN LET i == CHOOSE k \in 1..Len(s) :
                      s[k] = ":" /\ \A j \in 1..(k - 1) : s[j] # ":"
         IN  <<SubSeq(s, 1, i - 1)>> \o split(SubSeq(s, i + 1, Len(s)))
    ELSE <<s>>

\* the account taken without looking whether it is empty
extract_account_from_arn_any_fifth(arn) ==
    LET parts == split(arn)
    IN  IF Len(parts) >= 5 THEN Some(parts[5]) ELSE None

\* fn extract_account_from_arn
extract_account_from_arn(arn) ==
    LET parts == split(arn)
    IN  IF Len(parts) >= 5 /\ parts[5] # << >> THEN Some(parts[5]) ELSE None

-----------------------------------------------------------------------------
(* Results of fallible operations: Result<T> *)

Ok(v) == [ok |-> TRUE, v |-> v]

Err(e) == [ok |-> FALSE, v |-> e]

-----------------------------------------------------------------------------
(* The external `aws` CLI: what a call to it can come back with *)

\* struct StsCredentials, as handed out by operation `op`
StsCredentials(op, i) ==
    [ access_key_id     |-> <<op, "AccessKeyId", i>>,
      secret_access_key |-> <<op, "SecretAccessKey", i>>,
      session_token     |-> <<op, "SessionToken", i>>,
      expiration        |-> <<op, "Expiration", i>> ]

AccountIds == { <<Digit[i + 1]>> : i \in 1..NumAccounts }

\* a finished, failed or timed-out child process without interesting output
ProcessOutcomes == {"exit0", "nonzero", "spawn_error", "timeout"}

\* `aws sts get-caller-identity`: exit status and, on exit 0, the JSON printed
GetCallerIdentityOutcomes ==
    { [kind |-> "json", account |-> Some(a)] : a \in AccountIds }
    \cup { [kind |-> k, account |-> None] :
             k \in {"json_no_account", "malformed", "nonzero", "spawn_error", "timeout"} }

\* `aws sts get-session-token` / `aws sts assume-role`
StsOutcomes(op) ==
    { [kind |-> "json", creds |-> Some(StsCredentials(op, i))] : i \in 1..NumCreds }
    \cup { [kind |-> k, creds |-> None] :
             k \in {"malformed", "nonzero", "spawn_error", "timeout"} }

\* the identity check with a timeout or spawn failure reported as "not logged in"
check_sts_identity_error_is_false(out) ==
    IF out = "exit0" THEN Ok(TRUE) ELSE Ok(FALSE)

check_sts_identity(out) ==
    CASE out = "exit0"       -> Ok(TRUE)
      [] out = "nonzero"     -> Ok(FALSE)
      [] out = "spawn_error" -> Err("failed to spawn")
      [] out = "timeout"     -> Err("Timeout while checking STS identity")

\* the account lookup with a response without Account read as an empty account
get_profile_account_empty_account(out) ==
    IF out.kind \in {"json", "json_no_account"}
    THEN Ok(IF is_some(out.account) THEN unwrap(out.account) ELSE << >>)
    ELSE Err("get-caller-identity failed")

get_profile_account(out) ==
    CASE out.kind = "timeout"         -> Err("get_caller_identity timeout")
      [] out.kind = "spawn_error"     -> Err("failed to run aws sts get-caller-identity")
      [] out.kind = "nonzero"         -> Err("get-caller-identity failed")
      [] out.kind = "malformed"       -> Err("Parsing get-caller-identity JSON response failed")
      [] out.kind = "json_no_account" -> Err("Account not found in get-caller-identity response")
      [] out.kind = "json"            -> Ok(unwrap(out.account))

\* shared by get_session_token, assume_role_with_profile, assume_role_with_env:
\* timeout, spawn failure, non-zero exit and malformed JSON are all errors
sts_result(out, what) ==
    IF out.kind = "json" THEN Ok(unwrap(out.creds)) ELSE Err(what)

get_session_token(out) == sts_result(out, "get-session-token failed")

assume_role_with_profile(out) == sts_result(out, "assume-role failed")

assume_role_with_env(out) == sts_result(out, "assume-role (env) failed")

\* one entry of the history `calls`: the operation, its --profile argument, the
\* credentials overlaid on its environment, its other argument and, for the
\* operations that return credentials, the credentials returned
Call(op, prof, overlay, arg, ret) ==
    [op |-> op, profile |-> prof, env |-> overlay, arg |-> arg, ret |-> ret]

\* how the most recent external call or prompt ended
Outcome(op, out, account) == [op |-> op, out |-> out, account |-> account]

NoOutcome == Outcome("", "", None)

\* Result<T> as an Option<T>
ok(r) == IF r.ok THEN Some(r.v) ELSE None

-----------------------------------------------------------------------------
(* Inputs *)

\* arn:aws:iam::1:mfa
ArnWithAccount == <<"a", ":", "a", ":", "i", ":", ":", "1", ":", "m">>

\* arn:aws:iam:::mfa  (empty fifth field)
ArnEmptyAccount == <<"a", ":", "a", ":", "i", ":", ":", ":", "m">>

\* a bare device serial number (a single field)
SerialNoArn == <<"G", "A", "H", "T">>

\* what the operator may type at the MFA prompt: six digits, six digits padded
\* with blanks, too few digits, six characters that are not all digits
PromptInputs ==
    { <<"1", "2", "3", "4", "5", "6">>,
      <<" ", "1", "2", "3", "4", "5", "6", " ">>,
      <<"1", "2", "3", "4", "5">>,
      <<"1", "2", "3", "a", "5", "6">> }

OptStr(v) == {None, Some(v)}

\* the static keys a profile can hold in the credentials file
ProfileKeyId == <<"profile", "aws_access_key_id">>

ProfileSecret == <<"profile", "aws_secret_access_key">>

ProfileToken == <<"profile", "aws_session_token">>

MfaSerials == {None, Some(ArnWithAccount), Some(SerialNoArn)}

\* every shape a profile called `name` can have, its source_profile among `sources`
Shapes(name, sources) ==
    { Profile(name, r, s, m, u, g, a, k) :
        r \in OptStr("arn:aws:iam::1:role/R"),
        s \in sources,
        m \in MfaSerials,
        u \in OptStr("https://d-1.awsapps.com/start"),
        g \in OptStr("us-west-2"),
        a \in OptStr(ProfileKeyId),
        k \in OptStr(ProfileSecret) }

\* a role's own keys and MFA serial: none, keys only, keys and serial, serial only
OwnAuthOk(p) ==
    (is_some(p.aws_access_key_id) <=> is_some(p.aws_secret_access_key))
    /\ p.mfa_serial # Some(SerialNoArn)

\* stores exercising credential resolution for the profile "dev":
\* "dev" has any shape; when it is a role whose source is "prod", "prod" has any
\* shape too; otherwise "prod" is absent (so a source named "prod" is missing)
ResolutionStores ==
    { ("dev" :> d) @@ ("prod" :> p) :
        d \in { x \in Shapes("dev", {Some("prod")}) : is_role(x) /\ OwnAuthOk(x) },
        p \in Shapes("prod", {None}) }
    \cup { ("dev" :> d) : d \in Shapes("dev", {None, Some("dev"), Some("prod")}) }

\* stores exercising set-up and profile selection
SelectionStores ==
    { << >>,
      ("default" :> Profile("default", None, None, None, None, None,
                            Some(ProfileKeyId), Some(ProfileSecret))),
      ("default" :> Profile("default", None, None, None, None, None, None, None))
        @@ ("dev" :> Profile("dev", None, None, None, None, Some("us-west-2"), None, None))
        @@ ("prod" :> Profile("prod", None, None, Some(ArnEmptyAccount), None, None,
                              Some(ProfileKeyId), Some(ProfileSecret))) }

\* the downstream arguments: none, or `s3 ls`
AwsArgs == { << >>, <<<<"s", "3">>, <<"l", "s">>>> }

ResolutionOpts ==
    [ profile : {Some("dev")}, config : {FALSE}, clear_cache : {None},
      no_interactive : BOOLEAN, aws_args : AwsArgs ]

SelectionOpts ==
    [ profile : {None, Some("dev"), Some("prod")}, config : BOOLEAN,
      clear_cache : OptStr("all"), no_interactive : BOOLEAN, aws_args : AwsArgs ]

\* no delegate has been spawned
NoChild == [state |-> "none", status |-> None]

Environs == { << >> } \cup { ("AWS_PROFILE" :> n) : n \in {"dev", "prod"} }

Init ==
    /\ \/ /\ opts \in ResolutionOpts
          /\ profiles \in ResolutionStores
          /\ environ = << >>
       \/ /\ opts \in SelectionOpts
          /\ profiles \in SelectionStores
          /\ environ \in Environs
    /\ pc = "start"
    /\ selected_profile_name = None
    /\ profile = None
    /\ mfa_profile = None
    /\ mfa_serial = None
    /\ mfa_caller = None
    /\ attempt = 0
    /\ code = None
    /\ base_temp = None
    /\ final_creds = None
    /\ calls = << >>
    /\ last = NoOutcome
    /\ error = None
    /\ exit_code = None
    /\ child_env = None
    /\ child = NoChild
    /\ pending = {}
    /\ sent = << >>
    /\ taken = None
    /\ call_env = None
    /\ aws_dir = None

-----------------------------------------------------------------------------
(* main() and the ways run() ends *)

\* an Err from run() is reported and then treated as success
main_always_success(res) == 0

\* main: an Err from run() is exit status 1, Ok(()) is exit status 0
main(res) == IF res.ok THEN 0 ELSE 1

\* run() returns `res` to main
Return(res) ==
    /\ pc' = "done"
    /\ error' = IF res.ok THEN None ELSE Some(res.v)
    /\ exit_code' = Some(main(res))

\* std::process::exit(n)
ProcessExit(n) ==
    /\ pc' = "done"
    /\ error' = None
    /\ exit_code' = Some(n)

\* run() goes on at `next`
Goto(next) ==
    /\ pc' = next
    /\ UNCHANGED <<error, exit_code>>

-----------------------------------------------------------------------------
(* run(): set-up and profile selection *)

SetupOutcomes == {"ok", "aws_missing", "load_failed"}

Setup ==
    /\ pc = "start"
    /\ \E out \in SetupOutcomes :
         IF out = "aws_missing" THEN Return(Err("aws binary not found"))
         ELSE IF out = "load_failed" THEN Return(Err("Failed to read"))
         ELSE IF profiles = << >> THEN Return(Err("No AWS profiles found"))
         ELSE IF opts.config THEN Return(Ok("print_config"))
         ELSE IF is_some(opts.clear_cache) THEN Return(Ok("clear_cache"))
         ELSE Goto("select")
    /\ last' = NoOutcome
    /\ UNCHANGED delegate_vars
    /\ UNCHANGED <<call_env, aws_dir>>
    /\ UNCHANGED <<profiles, opts, environ, selected_profile_name, profile,
                   mfa_profile, mfa_serial, mfa_caller, attempt, code, base_temp,
                   final_creds, calls>>

\* what the profile picker comes back with: a name of the store, or an I/O error
interactive_select_profile(store) ==
    { Ok(n) : n \in DOMAIN store } \cup { Err("picker failed") }

after_select(p) == IF is_sso(p) THEN "check_sso" ELSE "resolve"

SelectProfile ==
    /\ pc = "select"
    /\ \E picked \in interactive_select_profile(profiles) :
         LET chosen ==
               IF is_some(opts.profile) THEN Ok(unwrap(opts.profile))
               ELSE IF opts.no_interactive
                    THEN IF is_some(get(environ, "AWS_PROFILE"))
                         THEN Ok(environ["AWS_PROFILE"])
                         ELSE Ok("default")
                    ELSE picked
         IN  IF ~chosen.ok
             THEN /\ Return(chosen)
                  /\ calls' = Append(calls, Call("select-profile", None, None, None,
                                                  None))
                  /\ last' = Outcome("select-profile", "error", None)
                  /\ UNCHANGED <<selected_profile_name, profile>>
             ELSE /\ selected_profile_name' = Some(chosen.v)
                  /\ calls' = IF is_some(opts.profile) \/ opts.no_interactive
                              THEN calls
                              ELSE Append(calls, Call("select-profile", None, None, None,
                                                      None))
                  /\ last' = IF is_some(opts.profile) \/ opts.no_interactive
                             THEN NoOutcome
                             ELSE Outcome("select-profile", "picked", None)
                  /\ IF get(profiles, chosen.v) = None
                     THEN /\ Return(Err("Profile not found"))
                          /\ UNCHANGED profile
                     ELSE /\ profile' = get(profiles, chosen.v)
                          /\ Goto(after_select(profiles[chosen.v]))
    /\ UNCHANGED delegate_vars
    /\ UNCHANGED <<call_env, aws_dir>>
    /\ UNCHANGED <<profiles, opts, environ, mfa_profile, mfa_serial, mfa_caller,
                   attempt, code, base_temp, final_creds>>

-----------------------------------------------------------------------------
(* run(): SSO liveness of the selected profile *)

\* the match with the unattended exit left out of the Ok(false) arm
sso_decision_always_login(r, no_interactive) ==
    IF r.ok /\ r.v THEN "resolve"
    ELSE IF r.ok THEN "sso_login"
         ELSE IF no_interactive THEN "exit" ELSE "resolve"

\* the match on check_sts_identity's result: where run() goes next
sso_decision(r, no_interactive) ==
    IF r.ok /\ r.v THEN "resolve"
    ELSE IF r.ok
         THEN IF no_interactive THEN "exit" ELSE "sso_login"
         ELSE IF no_interactive THEN "exit" ELSE "resolve"

CheckSso ==
    /\ pc = "check_sso"
    /\ \E out \in ProcessOutcomes :
         LET r == check_sts_identity(out)
             d == sso_decision(r, opts.no_interactive)
         IN  /\ calls' = Append(calls, Call("check_sts_identity",
                                            selected_profile_name, None, None, None))
             /\ last' = Outcome("check_sts_identity", out, None)
             /\ IF d = "exit" THEN ProcessExit(2) ELSE Goto(d)
    /\ UNCHANGED delegate_vars
    /\ UNCHANGED <<call_env, aws_dir>>
    /\ UNCHANGED <<profiles, opts, environ, selected_profile_name, profile,
                   mfa_profile, mfa_serial, mfa_caller, attempt, code, base_temp,
                   final_creds>>

\* `aws sso login --profile <selected>` run as a foreground child (no timeout)
SsoLoginOutcomes == {"exit0", "nonzero", "spawn_error"}

SsoLogin ==
    /\ pc = "sso_login"
    /\ \E out \in SsoLoginOutcomes :
         /\ calls' = Append(calls, Call("sso-login", selected_profile_name, None, None,
                                        None))
         /\ last' = Outcome("sso-login", out, None)
         /\ IF out = "spawn_error" THEN Return(Err("Failed to run aws sso login"))
            ELSE IF out = "nonzero" THEN Return(Err("aws sso login failed"))
            ELSE Goto("resolve")
    /\ UNCHANGED delegate_vars
    /\ UNCHANGED <<call_env, aws_dir>>
    /\ UNCHANGED <<profiles, opts, environ, selected_profile_name, profile,
                   mfa_profile, mfa_serial, mfa_caller, attempt, code, base_temp,
                   final_creds>>

-----------------------------------------------------------------------------
(* run(): credential resolution *)

\* the chain with the SSO arm tried before the MFA arm
classify_source_sso_first(base_profile) ==
    IF is_sso(base_profile) THEN "with_profile"
    ELSE IF requires_mfa(base_profile) /\ is_static(base_profile) THEN "mfa_then_env"
    ELSE IF is_static(base_profile) THEN "with_profile"
    ELSE "unsupported"

\* the if / else-if chain over the source profile of a role
classify_source(base_profile) ==
    IF requires_mfa(base_profile) /\ is_static(base_profile) THEN "mfa_then_env"
    ELSE IF is_sso(base_profile) THEN "with_profile"
    ELSE IF is_static(base_profile) THEN "with_profile"
    ELSE "unsupported"

\* a source_profile that names no profile of the store passes for a profile
\* with static keys
lookup_source_unchecked(p, store) ==
    IF p.source_profile = None
    THEN Err("source_profile missing for role profile")
    ELSE IF get(store, unwrap(p.source_profile)) = None
         THEN Ok([p EXCEPT !.role_arn = None, !.mfa_serial = None,
                           !.aws_access_key_id = Some(ProfileKeyId),
                           !.aws_secret_access_key = Some(ProfileSecret)])
         ELSE Ok(store[unwrap(p.source_profile)])

\* `profile.source_profile.clone().ok_or_else(..)?` and
\* `profiles.get(&source_name).ok_or_else(..)?`: the source profile of a role
lookup_source(p, store) ==
    IF p.source_profile = None
    THEN Err("source_profile missing for role profile")
    ELSE IF get(store, unwrap(p.source_profile)) = None
         THEN Err("source_profile not found")
         ELSE Ok(store[unwrap(p.source_profile)])

\* what `let final_creds = if ... else ...` decides before any call is made:
\* the next step, and the arguments of the MFA acquisition when there is one
resolve(p, store) ==
    IF is_role(p)
    THEN LET base == lookup_source(p, store)
         IN  IF ~base.ok
             THEN [next |-> "err", msg |-> base.v,
                   mfa_profile |-> None, mfa_serial |-> None]
             ELSE LET base_profile == base.v
                      kind == classify_source(base_profile)
                  IN  IF kind = "mfa_then_env"
                      THEN [next |-> "mfa_role", msg |-> "",
                            mfa_profile |-> p.source_profile,
                            mfa_serial |-> base_profile.mfa_serial]
                      ELSE IF kind = "with_profile"
                      THEN [next |-> "assume_role_with_profile", msg |-> "",
                            mfa_profile |-> None, mfa_serial |-> None]
                      ELSE [next |-> "err",
                            msg |-> "Unsupported source_profile auth method",
                            mfa_profile |-> None, mfa_serial |-> None]
    ELSE IF requires_mfa(p) /\ is_static(p)
    THEN [next |-> "mfa_profile", msg |-> "",
          mfa_profile |-> Some(p.name), mfa_serial |-> p.mfa_serial]
    ELSE [next |-> "none", msg |-> "", mfa_profile |-> None, mfa_serial |-> None]

Resolve ==
    /\ pc = "resolve"
    /\ LET d == resolve(unwrap(profile), profiles)
       IN  /\ IF d.next = "err" THEN Return(Err(d.msg))
              ELSE IF d.next \in {"mfa_role", "mfa_profile"} THEN Goto("mfa_verify")
              ELSE IF d.next = "assume_role_with_profile"
                   THEN Goto("assume_role_with_profile")
                   ELSE Goto("exec")
           /\ mfa_profile' = d.mfa_profile
           /\ mfa_serial' = d.mfa_serial
           /\ mfa_caller' = IF d.next \in {"mfa_role", "mfa_profile"}
                            THEN Some(d.next) ELSE None
           /\ last' = NoOutcome
    /\ UNCHANGED delegate_vars
    /\ UNCHANGED <<call_env, aws_dir>>
    /\ UNCHANGED <<profiles, opts, environ, selected_profile_name, profile,
                   attempt, code, base_temp, final_creds, calls>>

-----------------------------------------------------------------------------
(* get_session_token_interactive *)

\* the comparison dropped: every account the lookup reports is accepted
account_mismatch_never(r, mfa_account) == FALSE

\* `Ok(profile_account) => if profile_account != mfa_account`
account_mismatch(r, mfa_account) == r.ok /\ r.v # mfa_account

\* the account check made before prompting
MfaVerify ==
    /\ pc = "mfa_verify"
    /\ LET mfa_account == extract_account_from_arn(unwrap(mfa_serial))
       IN  IF mfa_account = None
           THEN /\ Goto("mfa_prompt")
                /\ attempt' = 1
                /\ last' = NoOutcome
                /\ UNCHANGED calls
           ELSE \E out \in GetCallerIdentityOutcomes :
                  LET r == get_profile_account(out)
                  IN  /\ calls' = Append(calls, Call("get_profile_account",
                                                     mfa_profile, None, None, None))
                      /\ last' = Outcome("get_profile_account", out.kind, out.account)
                      /\ IF account_mismatch(r, unwrap(mfa_account))
                         THEN /\ Return(Err("MFA serial account does not match profile account"))
                              /\ UNCHANGED attempt
                         ELSE /\ Goto("mfa_prompt")
                              /\ attempt' = 1
    /\ UNCHANGED delegate_vars
    /\ UNCHANGED <<call_env, aws_dir>>
    /\ UNCHANGED <<profiles, opts, environ, selected_profile_name, profile,
                   mfa_profile, mfa_serial, mfa_caller, code, base_temp, final_creds>>

\* Password::interact: Some(line typed by the operator), or None for an I/O error
PromptOutcomes == { Some(c) : c \in PromptInputs } \cup { None }

\* one pass of the loop body up to the call of get_session_token
MfaPrompt ==
    /\ pc = "mfa_prompt"
    /\ \E typed \in PromptOutcomes :
         /\ calls' = Append(calls, Call("mfa-prompt", mfa_profile, None,
                                        unwrap(mfa_serial), None))
         /\ last' = Outcome("mfa-prompt", IF typed = None THEN "error" ELSE "typed", None)
         /\ IF typed = None
            THEN /\ Return(Err("MFA prompt failed"))
                 /\ UNCHANGED <<attempt, code>>
            ELSE /\ code' = typed
                 /\ IF code_ok(trim(unwrap(typed)))
                    THEN /\ Goto("get_session_token")
                         /\ UNCHANGED attempt
                    ELSE IF attempt = MaxAttempts
                         THEN /\ Return(Err("MFA failed after retries"))
                              /\ UNCHANGED attempt
                         ELSE /\ Goto("mfa_prompt")
                              /\ attempt' = attempt + 1
    /\ UNCHANGED delegate_vars
    /\ UNCHANGED <<call_env, aws_dir>>
    /\ UNCHANGED <<profiles, opts, environ, selected_profile_name, profile,
                   mfa_profile, mfa_serial, mfa_caller, base_temp, final_creds>>

\* the call of get_session_token and the match on its result
GetSessionToken ==
    /\ pc = "get_session_token"
    /\ \E out \in StsOutcomes("get-session-token") :
         LET r == get_session_token(out)
         IN  /\ calls' = Append(calls, Call("get-session-token", mfa_profile, None,
                                            trim(unwrap(code)), ok(r)))
             /\ last' = Outcome("get-session-token", out.kind, None)
             /\ IF r.ok
                THEN IF mfa_caller = Some("mfa_role")
                     THEN /\ base_temp' = Some(r.v)
                          /\ Goto("assume_role_with_env")
                          /\ UNCHANGED <<attempt, final_creds>>
                     ELSE /\ final_creds' = Some(r.v)
                          /\ Goto("exec")
                          /\ UNCHANGED <<attempt, base_temp>>
                ELSE IF attempt = MaxAttempts
                     THEN /\ ProcessExit(3)
                          /\ UNCHANGED <<attempt, base_temp, final_creds>>
                     ELSE /\ Goto("mfa_prompt")
                          /\ attempt' = attempt + 1
                          /\ UNCHANGED <<base_temp, final_creds>>
    /\ UNCHANGED delegate_vars
    /\ UNCHANGED <<call_env, aws_dir>>
    /\ UNCHANGED <<profiles, opts, environ, selected_profile_name, profile,
                   mfa_profile, mfa_serial, mfa_caller, code>>

-----------------------------------------------------------------------------
(* run(): the assume-role call of a role profile *)

\* the environment of the `aws sts assume-role` child of assume_role_with_env:
\* the three Command::env settings on top of the inherited ambient environment
assume_role_env(base, env) ==
    ("AWS_ACCESS_KEY_ID" :> base.access_key_id)
        @@ ("AWS_SECRET_ACCESS_KEY" :> base.secret_access_key)
        @@ ("AWS_SESSION_TOKEN" :> base.session_token) @@ env

AssumeRoleWithEnv ==
    /\ pc = "assume_role_with_env"
    /\ \E out \in StsOutcomes("assume-role") :
         LET r == assume_role_with_env(out)
         IN  /\ calls' = Append(calls, Call("assume-role", None, base_temp, None,
                                            ok(r)))
             /\ last' = Outcome("assume-role", out.kind, None)
             /\ IF r.ok
                THEN /\ final_creds' = Some(r.v)
                     /\ Goto("exec")
                ELSE /\ Return(r)
                     /\ UNCHANGED final_creds
    /\ UNCHANGED delegate_vars
    /\ call_env' = Some(assume_role_env(unwrap(base_temp), environ))
    /\ UNCHANGED aws_dir
    /\ UNCHANGED <<profiles, opts, environ, selected_profile_name, profile,
                   mfa_profile, mfa_serial, mfa_caller, attempt, code, base_temp>>

AssumeRoleWithProfile ==
    /\ pc = "assume_role_with_profile"
    /\ \E out \in StsOutcomes("assume-role") :
         LET r == assume_role_with_profile(out)
         IN  /\ calls' = Append(calls, Call("assume-role",
                                            unwrap(profile).source_profile, None, None,
                                            ok(r)))
             /\ last' = Outcome("assume-role", out.kind, None)
             /\ IF r.ok
                THEN /\ final_creds' = Some(r.v)
                     /\ Goto("exec")
                ELSE /\ Return(r)
                     /\ UNCHANGED final_creds
    /\ UNCHANGED delegate_vars
    /\ UNCHANGED <<call_env, aws_dir>>
    /\ UNCHANGED <<profiles, opts, environ, selected_profile_name, profile,
                   mfa_profile, mfa_serial, mfa_caller, attempt, code, base_temp>>

-----------------------------------------------------------------------------
(* run_aws_child_capture: the environment of the delegate *)

\* str::starts_with
starts_with(a, prefix) ==
    Len(a) >= Len(prefix) /\ SubSeq(a, 1, Len(prefix)) = prefix

\* "--region"
RegionFlag == <<"-", "-", "r", "e", "g", "i", "o", "n">>

\* "--profile"
ProfileFlag == <<"-", "-", "p", "r", "o", "f", "i", "l", "e">>

\* "--profile="
ProfileFlagEq == <<"-", "-", "p", "r", "o", "f", "i", "l", "e", "=">>

\* Command::env(key, value) for an Option that is Some; nothing for None
set_env(key, o) == IF is_some(o) THEN key :> unwrap(o) ELSE << >>

\* an empty AWS_ACCESS_KEY_ID counts as present too
ak_present_when_set(env) == is_some(get(env, "AWS_ACCESS_KEY_ID"))

\* `match env::var("AWS_ACCESS_KEY_ID") { Ok(v) => !v.is_empty(), Err(_) => false }`
ak_present(env) ==
    is_some(get(env, "AWS_ACCESS_KEY_ID")) /\ env["AWS_ACCESS_KEY_ID"] # << >>

\* the resolved credentials yield to a key already in the environment
credential_overlay_unless_ambient(creds, p, env) ==
    IF is_some(creds) /\ ~ak_present(env)
    THEN ("AWS_ACCESS_KEY_ID" :> unwrap(creds).access_key_id)
         @@ ("AWS_SECRET_ACCESS_KEY" :> unwrap(creds).secret_access_key)
         @@ ("AWS_SESSION_TOKEN" :> unwrap(creds).session_token)
    ELSE << >>

\* `if let Some(creds) = creds { .. } else if profile.is_static() { .. }`:
\* the credential variables set on the Command
credential_overlay(creds, p, env) ==
    IF is_some(creds)
    THEN ("AWS_ACCESS_KEY_ID" :> unwrap(creds).access_key_id)
         @@ ("AWS_SECRET_ACCESS_KEY" :> unwrap(creds).secret_access_key)
         @@ ("AWS_SESSION_TOKEN" :> unwrap(creds).session_token)
    ELSE IF is_static(p) /\ ~ak_present(env)
         THEN set_env("AWS_ACCESS_KEY_ID", p.aws_access_key_id)
              @@ set_env("AWS_SECRET_ACCESS_KEY", p.aws_secret_access_key)
              @@ set_env("AWS_SESSION_TOKEN", p.aws_session_token)
         ELSE << >>

\* `env::var("AWS_REGION").ok().or_else(|| env::var("AWS_DEFAULT_REGION").ok())`
region_env(env) ==
    IF is_some(get(env, "AWS_REGION")) THEN get(env, "AWS_REGION")
    ELSE get(env, "AWS_DEFAULT_REGION")

\* `args.iter().any(|a| a.starts_with("--region"))`
provided_region_in_args(args) ==
    \E i \in DOMAIN args : starts_with(args[i], RegionFlag)

\* the region variable set on the Command
region_overlay(args, p, env) ==
    IF region_env(env) = None /\ ~provided_region_in_args(args)
    THEN set_env("AWS_DEFAULT_REGION", p.region)
    ELSE << >>

\* every argument that begins with "--profile" counts
provided_profile_in_args_by_prefix(args) ==
    \E i \in DOMAIN args : starts_with(args[i], ProfileFlag)

\* `args.iter().any(|a| a == "--profile" || a.starts_with("--profile="))`
provided_profile_in_args(args) ==
    \E i \in DOMAIN args :
        args[i] = ProfileFlag \/ starts_with(args[i], ProfileFlagEq)

\* the AWS_PROFILE variable set on the Command
profile_overlay(args, p) ==
    IF ~provided_profile_in_args(args) THEN "AWS_PROFILE" :> p.name ELSE << >>

\* the environment the delegate is spawned with: what Command::env set, on top
\* of the inherited ambient environment
delegate_env(args, creds, p, env) ==
    profile_overlay(args, p) @@ region_overlay(args, p, env)
        @@ credential_overlay(creds, p, env) @@ env

-----------------------------------------------------------------------------
(* run(): the delegate *)

SIGINT == 2

SIGKILL == 9

SIGTERM == 15

\* how the delegate can end: normally with a code, or killed by a signal
\* (SIGKILL stands for the signals of the wildcard arm)
ExitStatuses ==
    { [code |-> Some(n), signal |-> None] : n \in 0..MaxChildCode }
    \cup { [code |-> None, signal |-> Some(sig)] : sig \in {SIGINT, SIGKILL, SIGTERM} }

\* the translation with the signal number passed on as it is
status_to_exit_code_raw_signal(status) ==
    IF is_some(status.code) THEN unwrap(status.code)
    ELSE IF is_some(status.signal) THEN unwrap(status.signal) ELSE 0

\* the translation of the delegate's ExitStatus at the end of run_aws_child_capture
status_to_exit_code(status) ==
    IF is_some(status.code) THEN unwrap(status.code)
    ELSE IF is_some(status.signal)
         THEN IF unwrap(status.signal) = SIGINT THEN 130
              ELSE IF unwrap(status.signal) = SIGTERM THEN 143
              ELSE 128 + unwrap(status.signal)
         ELSE 0

\* a delegate that is running / that has ended with `status`
Running == [state |-> "running", status |-> None]

Exited(status) == [state |-> "exited", status |-> Some(status)]

\* the test left out: the delegate is run even without arguments
no_command_never(args) == FALSE

\* `opts.aws_args.is_empty()`
no_command(args) == args = << >>

\* `if opts.aws_args.is_empty()` and run_aws_child_capture up to the spawn
Exec ==
    /\ pc = "exec"
    /\ IF no_command(opts.aws_args)
       THEN /\ Return(Ok("No AWS command specified"))
            /\ last' = NoOutcome
            /\ UNCHANGED <<calls, child_env, child>>
       ELSE \E spawned \in BOOLEAN :
              IF spawned
              THEN /\ calls' = Append(calls, Call("spawn", None, final_creds,
                                                  opts.aws_args, None))
                   /\ last' = Outcome("spawn", "spawned", None)
                   /\ child_env' = Some(delegate_env(opts.aws_args, final_creds,
                                                     unwrap(profile), environ))
                   /\ child' = Running
                   /\ Goto("child")
              ELSE /\ Return(Err("failed to spawn aws child command"))
                   /\ last' = Outcome("spawn", "spawn_error", None)
                   /\ UNCHANGED <<calls, child_env, child>>
    /\ UNCHANGED <<pending, sent, taken>>
    /\ UNCHANGED <<call_env, aws_dir>>
    /\ UNCHANGED <<profiles, opts, environ, selected_profile_name, profile,
                   mfa_profile, mfa_serial, mfa_caller, attempt, code, base_temp,
                   final_creds>>

\* no signal reaches awx: the delegate ends, child.wait() completes in select!
\* and run() forwards the translated status with process::exit
ChildExit ==
    /\ pc = "child"
    /\ child = Running
    /\ pending = {}
    /\ \E status \in ExitStatuses :
         /\ child' = Exited(status)
         /\ ProcessExit(status_to_exit_code(status))
    /\ taken' = Some("child")
    /\ last' = Outcome("wait", "exited", None)
    /\ UNCHANGED <<child_env, pending, sent>>
    /\ UNCHANGED <<call_env, aws_dir>>
    /\ UNCHANGED <<profiles, opts, environ, selected_profile_name, profile,
                   mfa_profile, mfa_serial, mfa_caller, attempt, code, base_temp,
                   final_creds, calls>>

-----------------------------------------------------------------------------
(* run_aws_child_capture: the wait for the delegate raced against signals *)

\* the signals awx has a handler for
ForwardedSignals == {SIGINT, SIGTERM}

\* the statuses of ExitStatuses and the largest normal exit code
ChildStatuses == ExitStatuses \cup { [code |-> Some(255), signal |-> None] }

\* both signal branches send SIGINT
signal_of_branch_always_sigint(branch) == SIGINT

\* the signal a signal branch of select! passes to libc::kill
signal_of_branch(branch) == IF branch = "sigint" THEN SIGINT ELSE SIGTERM

\* the wait abandoned: a delegate that is still running is reported as killed
wait_gives_up(c) ==
    IF c.state = "exited" THEN c.status
    ELSE Some([code |-> None, signal |-> Some(SIGKILL)])

\* `child.wait()`: the status of the delegate once it has exited; pending (None)
\* for as long as it runs, with no timeout
wait(c) == IF c.state = "exited" THEN c.status ELSE None

\* where a signal branch resumes its wait: at select! again
after_forward_reselect == "child"

\* where a signal branch goes after libc::kill: to its own `child.wait().await`
after_forward == "wait_after_signal"

\* the branches of select! whose future is ready
ReadyBranches ==
    (IF is_some(wait(child)) THEN {"child"} ELSE {})
    \cup (IF SIGINT \in pending THEN {"sigint"} ELSE {})
    \cup (IF SIGTERM \in pending THEN {"sigterm"} ELSE {})

\* SIGINT or SIGTERM is delivered to awx while the delegate is its child
SignalArrives ==
    /\ pc \in {"child", "wait_after_signal"}
    /\ \E sig \in ForwardedSignals :
         /\ sig \notin pending
         /\ pending' = pending \cup {sig}
    /\ UNCHANGED <<child_env, child, sent, taken>>
    /\ UNCHANGED <<call_env, aws_dir>>
    /\ UNCHANGED <<profiles, opts, environ, pc, selected_profile_name, profile,
                   mfa_profile, mfa_serial, mfa_caller, attempt, code, base_temp,
                   final_creds, calls, last, error, exit_code>>

\* the delegate ends, of its own accord or because of a signal it received
ChildTerminates ==
    /\ child = Running
    /\ \E status \in ChildStatuses : child' = Exited(status)
    /\ UNCHANGED <<child_env, pending, sent, taken>>
    /\ UNCHANGED <<call_env, aws_dir>>
    /\ UNCHANGED <<profiles, opts, environ, pc, selected_profile_name, profile,
                   mfa_profile, mfa_serial, mfa_caller, attempt, code, base_temp,
                   final_creds, calls, last, error, exit_code>>

\* select! completes with one of its ready branches: the child's status is
\* translated, or the signal is sent to the delegate's pid and awx waits on
Select ==
    /\ pc = "child"
    /\ \E branch \in ReadyBranches :
         /\ taken' = Some(branch)
         /\ IF branch = "child"
            THEN /\ ProcessExit(status_to_exit_code(unwrap(wait(child))))
                 /\ last' = Outcome("wait", "exited", None)
                 /\ UNCHANGED <<pending, sent>>
            ELSE /\ sent' = Append(sent, signal_of_branch(branch))
                 /\ pending' = pending \ {signal_of_branch(branch)}
                 /\ Goto(after_forward)
                 /\ UNCHANGED last
    /\ UNCHANGED <<child_env, child>>
    /\ UNCHANGED <<call_env, aws_dir>>
    /\ UNCHANGED <<profiles, opts, environ, selected_profile_name, profile,
                   mfa_profile, mfa_serial, mfa_caller, attempt, code, base_temp,
                   final_creds, calls>>

\* `child.wait().await` inside a signal branch completes
WaitAfterSignal ==
    /\ pc = "wait_after_signal"
    /\ is_some(wait(child))
    /\ ProcessExit(status_to_exit_code(unwrap(wait(child))))
    /\ last' = Outcome("wait", "exited", None)
    /\ UNCHANGED delegate_vars
    /\ UNCHANGED <<call_env, aws_dir>>
    /\ UNCHANGED <<profiles, opts, environ, selected_profile_name, profile,
                   mfa_profile, mfa_serial, mfa_caller, attempt, code, base_temp,
                   final_creds, calls>>

-----------------------------------------------------------------------------

Next ==
    \/ Setup
    \/ SelectProfile
    \/ CheckSso
    \/ SsoLogin
    \/ Resolve
    \/ MfaVerify
    \/ MfaPrompt
    \/ GetSessionToken
    \/ AssumeRoleWithEnv
    \/ AssumeRoleWithProfile
    \/ Exec
    \/ ChildExit

Spec == Init /\ [][Next]_vars

-----------------------------------------------------------------------------
(* run_aws_child_capture called with chosen arguments *)

\* values of the credential variables in the ambient environment
AmbientKeyId == <<"ambient", "AWS_ACCESS_KEY_ID">>

AmbientSecret == <<"ambient", "AWS_SECRET_ACCESS_KEY">>

AmbientToken == <<"ambient", "AWS_SESSION_TOKEN">>

\* ambient environments over the variables run_aws_child_capture reads or sets;
\* AWS_ACCESS_KEY_ID and AWS_REGION may be set to the empty string
DelegateEnvirons ==
    { set_env("AWS_ACCESS_KEY_ID", a) @@ set_env("AWS_SECRET_ACCESS_KEY", k)
        @@ set_env("AWS_SESSION_TOKEN", t) @@ set_env("AWS_REGION", r)
        @@ set_env("AWS_DEFAULT_REGION", d) @@ set_env("AWS_PROFILE", n) :
        a \in {None, Some(<< >>), Some(AmbientKeyId)},
        k \in OptStr(AmbientSecret),
        t \in OptStr(AmbientToken),
        r \in {None, Some(""), Some("eu-west-1")},
        d \in OptStr("eu-west-2"),
        n \in OptStr("prod") }

\* the profile "dev" with or without static keys, a session token and a region
DelegateProfiles ==
    { [Profile("dev", None, None, None, None, None, a, k)
         EXCEPT !.aws_session_token = t, !.region = r] :
        a \in OptStr(ProfileKeyId),
        k \in OptStr(ProfileSecret),
        t \in OptStr(ProfileToken),
        r \in OptStr("us-west-2") }

\* downstream argument lists: with and without flags that begin with
\* "--profile" or "--region"
DelegateArgs ==
    { <<<<"s", "3">>, <<"l", "s">>>>,
      <<<<"s", "3">>, <<"-", "-", "p", "r", "o", "f", "i", "l", "e">>, <<"p", "r", "o", "d">>>>,
      <<<<"s", "3">>, <<"-", "-", "p", "r", "o", "f", "i", "l", "e", "=", "p", "r", "o", "d">>>>,
      <<<<"s", "3">>, <<"-", "-", "p", "r", "o", "f", "i", "l", "e", "s">>>>,
      <<<<"s", "3">>, <<"-", "-", "r", "e", "g", "i", "o", "n">>, <<"e", "u">>>>,
      <<<<"s", "3">>, <<"-", "-", "r", "e", "g", "i", "o", "n", "=", "e", "u">>>>,
      <<<<"e", "c", "2">>, <<"-", "-", "r", "e", "g", "i", "o", "n", "-", "n", "a", "m", "e", "s">>, <<"e", "u">>>>,
      <<<<"s", "3">>, <<"-", "-", "p", "r", "o", "f", "i", "l", "e", "=", "p", "r", "o", "d">>, <<"-", "-", "r", "e", "g", "i", "o", "n", "=", "e", "u">>>> }

DelegateCreds == {None} \cup { Some(StsCredentials("assume-role", i)) : i \in 1..NumCreds }

\* run() is about to call run_aws_child_capture(args, creds, profile) for the
\* profile "dev", under an ambient environment
AtExec(argss, credss, ps, envs) ==
    /\ opts \in [ profile : {Some("dev")}, config : {FALSE}, clear_cache : {None},
                  no_interactive : {FALSE}, aws_args : argss ]
    /\ \E p \in ps : profiles = ("dev" :> p) /\ profile = Some(p)
    /\ final_creds \in credss
    /\ environ \in envs
    /\ pc = "exec"
    /\ selected_profile_name = Some("dev")
    /\ mfa_profile = None
    /\ mfa_serial = None
    /\ mfa_caller = None
    /\ attempt = 0
    /\ code = None
    /\ base_temp = None
    /\ calls = << >>
    /\ last = NoOutcome
    /\ error = None
    /\ exit_code = None
    /\ child_env = None
    /\ child = NoChild
    /\ pending = {}
    /\ sent = << >>
    /\ taken = None
    /\ call_env = None
    /\ aws_dir = None

InitEnv == AtExec(DelegateArgs, DelegateCreds, DelegateProfiles, DelegateEnvirons)

NextEnv == Exec

\* the construction of the delegate's environment, over all its inputs
SpecEnv == InitEnv /\ [][NextEnv]_vars

InitChild ==
    AtExec({ <<<<"s", "3">>, <<"l", "s">>>> }, DelegateCreds,
           { p \in DelegateProfiles : is_static(p) /\ p.region = None },
           { << >>, ("AWS_PROFILE" :> "prod") })

NextChild ==
    \/ Exec
    \/ SignalArrives
    \/ ChildTerminates
    \/ Select
    \/ WaitAfterSignal

\* the delegate's life: spawn, signals, termination, select! and the exit code
SpecChild == InitChild /\ [][NextChild]_vars

-----------------------------------------------------------------------------
(* Vocabulary of the properties *)

CallIdx(op) == { i \in 1..Len(calls) : calls[i].op = op }

NumCalls(op) == Cardinality(CallIdx(op))

Sel == unwrap(profile)

\* the selected profile is a role whose source_profile names a profile of the store
RoleWithSource ==
    /\ profile # None
    /\ is_role(Sel)
    /\ Sel.source_profile # None
    /\ unwrap(Sel.source_profile) \in DOMAIN profiles

Base == profiles[unwrap(Sel.source_profile)]

SrcMfaStatic == requires_mfa(Base) /\ is_static(Base)

\* resolution has just completed, or the delegate is running
Resolved == pc \in {"exec", "child"}

InResolution ==
    pc \in {"mfa_verify", "mfa_prompt", "get_session_token", "assume_role_with_env",
            "assume_role_with_profile"}

SixDigits(c) ==
    /\ Len(c) = 6
    /\ \A i \in 1..Len(c) : c[i] \in {"0", "1", "2", "3", "4", "5", "6", "7", "8", "9"}

-----------------------------------------------------------------------------
(* Properties *)

\* C1: when the selected profile is a role and its source profile is itself a
\* role, resolution fails: no get-session-token call, no assume-role call and no
\* delegate spawn happen, and resolution never gets past the classification.
C1_ChainedSourceRejected ==
    (RoleWithSource /\ is_role(Base))
    => /\ NumCalls("get-session-token") = 0
       /\ NumCalls("assume-role") = 0
       /\ NumCalls("spawn") = 0
       /\ ~InResolution
       /\ ~Resolved

\* C2: for a role whose source profile exists, the source is classified in the
\* order (1) MFA serial and static keys: MFA session token for the source, then
\* one assume-role call with that token as overlay and no profile selector;
\* (2) otherwise SSO or static: one assume-role call with the source's name as
\* profile selector and no MFA prompt; (3) otherwise an unsupported-source error
\* and no assume-role call.  On success the result is the Credential that the
\* assume-role call returned.
C2_SourceClassification ==
    RoleWithSource
    => /\ NumCalls("assume-role") <= 1
       /\ SrcMfaStatic
          => /\ \A i \in CallIdx("assume-role") :
                  /\ calls[i].profile = None
                  /\ calls[i].env # None
                  /\ i > 1
                  /\ calls[i - 1].op = "get-session-token"
                  /\ calls[i - 1].ret = calls[i].env
             /\ \A i \in CallIdx("get-session-token") \cup CallIdx("mfa-prompt") :
                  calls[i].profile = Sel.source_profile
             /\ \A i \in CallIdx("mfa-prompt") :
                  calls[i].arg = unwrap(Base.mfa_serial)
             /\ pc # "assume_role_with_profile"
       /\ (~SrcMfaStatic /\ (is_sso(Base) \/ is_static(Base)))
          => /\ \A i \in CallIdx("assume-role") :
                  /\ calls[i].profile = Sel.source_profile
                  /\ calls[i].env = None
             /\ NumCalls("mfa-prompt") = 0
             /\ NumCalls("get-session-token") = 0
             /\ pc \notin {"mfa_verify", "mfa_prompt", "get_session_token",
                           "assume_role_with_env"}
       /\ (~SrcMfaStatic /\ ~is_sso(Base) /\ ~is_static(Base))
          => /\ NumCalls("assume-role") = 0
             /\ NumCalls("mfa-prompt") = 0
             /\ NumCalls("get-session-token") = 0
             /\ ~InResolution
             /\ ~Resolved
             /\ (pc = "done" /\ last = NoOutcome)
                => /\ error = Some("Unsupported source_profile auth method")
                   /\ exit_code = Some(1)
       /\ Resolved
          => /\ NumCalls("assume-role") = 1
             /\ \A i \in CallIdx("assume-role") :
                  /\ calls[i].ret # None
                  /\ final_creds = calls[i].ret

\* C2 witness: a role whose source has an MFA serial and static keys was resolved
\* through one assume-role call under the source's session token.
C2_Witness ==
    /\ RoleWithSource
    /\ SrcMfaStatic
    /\ is_sso(Base)
    /\ pc = "exec"
    /\ NumCalls("assume-role") = 1
    /\ base_temp # None

\* C3: a profile that is not a role and has an MFA serial and static keys gets
\* the Credential of the MFA acquisition, without assume-role; any other profile
\* that is not a role gets no credentials, with no get-session-token call, no
\* assume-role call and no MFA prompt; a profile that is a role is never prompted
\* for its own MFA serial.
C3_NonRoleResolution ==
    profile # None
    => /\ (~is_role(Sel) /\ requires_mfa(Sel) /\ is_static(Sel))
          => /\ NumCalls("assume-role") = 0
             /\ \A i \in CallIdx("get-session-token") \cup CallIdx("mfa-prompt") :
                  calls[i].profile = Some(Sel.name)
             /\ Resolved
                => /\ final_creds # None
                   /\ \E i \in CallIdx("get-session-token") : calls[i].ret = final_creds
       /\ (~is_role(Sel) /\ ~(requires_mfa(Sel) /\ is_static(Sel)))
          => /\ NumCalls("assume-role") = 0
             /\ NumCalls("get-session-token") = 0
             /\ NumCalls("mfa-prompt") = 0
             /\ ~InResolution
             /\ Resolved => final_creds = None
       /\ is_role(Sel)
          => \A i \in CallIdx("mfa-prompt") : calls[i].profile # Some(Sel.name)

\* C4 as stated: at most 3 prompts and at most 3 get-session-token calls per
\* acquisition; a typed code that is not exactly 6 ASCII digits is rejected
\* locally, so a call is made only with such a code; after the first successful
\* call there is no further prompt or call.
C4_TypedCodeSixDigits ==
    /\ NumCalls("mfa-prompt") <= 3
    /\ NumCalls("get-session-token") <= 3
    /\ pc = "get_session_token" => SixDigits(unwrap(code))
    /\ \A i \in CallIdx("get-session-token") :
         /\ SixDigits(calls[i].arg)
         /\ calls[i].ret # None
            => \A j \in CallIdx("get-session-token") \cup CallIdx("mfa-prompt") : j <= i

\* C4 amended: at most 3 prompts and at most 3 get-session-token calls per
\* acquisition; a typed code that, once surrounding whitespace is trimmed, is not
\* exactly 6 ASCII digits is rejected locally and uses up its attempt; a call is
\* made only with the trimmed code, which is 6 digits, right after its prompt;
\* after the first successful call there is no further prompt or call.
C4_TrimmedCodeSixDigits ==
    /\ NumCalls("mfa-prompt") <= 3
    /\ NumCalls("get-session-token") <= 3
    /\ pc = "get_session_token"
       => /\ SixDigits(trim(unwrap(code)))
          /\ NumCalls("mfa-prompt") = attempt
    /\ pc = "mfa_prompt" => NumCalls("mfa-prompt") = attempt - 1
    /\ (last.op = "mfa-prompt" /\ last.out = "typed" /\ ~SixDigits(trim(unwrap(code))))
       => /\ pc # "get_session_token"
          /\ calls[Len(calls)].op = "mfa-prompt"
    /\ \A i \in CallIdx("get-session-token") :
         /\ SixDigits(calls[i].arg)
         /\ i > 1
         /\ calls[i - 1].op = "mfa-prompt"
         /\ calls[i].ret # None
            => \A j \in CallIdx("get-session-token") \cup CallIdx("mfa-prompt") : j <= i

\* C4 witness: a malformed code was rejected, then six digits typed with blanks
\* around them were submitted and a Credential came back.
C4_Witness ==
    /\ NumCalls("mfa-prompt") = 2
    /\ NumCalls("get-session-token") = 1
    /\ code # None
    /\ unwrap(code) # trim(unwrap(code))
    /\ final_creds # None
    /\ pc = "exec"

\* C5: whenever the prompt loop uses up its 3 attempts without a session token,
\* the process ends with exit status 3 and the delegate is never spawned.
C5_ExhaustionExits3 ==
    ( /\ pc = "done"
      /\ NumCalls("mfa-prompt") = 3
      /\ \A i \in CallIdx("get-session-token") : calls[i].ret = None
      /\ \/ last.op = "get-session-token"
         \/ last.op = "mfa-prompt" /\ last.out = "typed" )
    => /\ exit_code = Some(3)
       /\ NumCalls("spawn") = 0

\* the account lookup reported an account other than the one in the MFA serial
AccountsDiffer ==
    /\ last.op = "get_profile_account"
    /\ last.out = "json"
    /\ last.account # extract_account_from_arn(unwrap(mfa_serial))

\* C6: when the account of the MFA serial is extractable and the identity service
\* reports another account, the acquisition fails with the account-mismatch error
\* before any prompt and any get-session-token call, without a second lookup, and
\* the invocation ends without the delegate.
C6_AccountMismatchFailsFirst ==
    AccountsDiffer
    => /\ pc = "done"
       /\ error = Some("MFA serial account does not match profile account")
       /\ exit_code = Some(1)
       /\ NumCalls("get_profile_account") = 1
       /\ NumCalls("mfa-prompt") = 0
       /\ NumCalls("get-session-token") = 0
       /\ NumCalls("assume-role") = 0
       /\ NumCalls("spawn") = 0

\* C6 witness: the lookup reported account 2 for a serial of account 1.
C6_Witness ==
    /\ AccountsDiffer
    /\ last.account = Some(<<"2">>)
    /\ extract_account_from_arn(unwrap(mfa_serial)) = Some(<<"1">>)

\* C7: a failed account lookup (non-zero exit, malformed or Account-less response,
\* spawn error, timeout) does not fail the acquisition: the prompt loop starts in
\* the state it starts in after a matching account; and when no account is
\* extractable from the MFA serial no lookup is made.
C7_LookupFailureProceeds ==
    /\ (last.op = "get_profile_account" /\ ~AccountsDiffer)
       => /\ pc = "mfa_prompt"
          /\ attempt = 1
          /\ error = None
          /\ exit_code = None
          /\ calls[Len(calls)].op = "get_profile_account"
    /\ (mfa_serial # None /\ extract_account_from_arn(unwrap(mfa_serial)) = None)
       => NumCalls("get_profile_account") = 0

\* C7 witness: the lookup answered without an Account field and the loop started.
C7_Witness ==
    /\ last.op = "get_profile_account"
    /\ last.out = "json_no_account"
    /\ pc = "mfa_prompt"

\* C8: for a selected SSO profile whose identity check fails cleanly: unattended,
\* the process exits with status 2 without login flow, resolution call or
\* delegate; interactive, the login flow runs once, a non-zero login fails the run
\* with exit status 1 before resolution, a zero login lets resolution proceed.
C8_CleanFailure ==
    /\ (last.op = "check_sts_identity" /\ last.out = "nonzero")
       => IF opts.no_interactive
          THEN /\ pc = "done"
               /\ exit_code = Some(2)
               /\ \A i \in 1..Len(calls) : calls[i].op = "check_sts_identity"
          ELSE /\ pc = "sso_login"
               /\ exit_code = None
    /\ NumCalls("sso-login") <= 1
    /\ \A i \in CallIdx("sso-login") :
         /\ ~opts.no_interactive
         /\ i > 1
         /\ calls[i - 1].op = "check_sts_identity"
         /\ calls[i].profile = selected_profile_name
    /\ (last.op = "sso-login" /\ last.out = "nonzero")
       => /\ pc = "done"
          /\ exit_code = Some(1)
          /\ error = Some("aws sso login failed")
          /\ calls[Len(calls)].op = "sso-login"
    /\ (last.op = "sso-login" /\ last.out = "exit0")
       => /\ pc = "resolve"
          /\ exit_code = None

\* C8 witness: after a clean failure the login flow ran and resolution completed.
C8_Witness ==
    /\ NumCalls("sso-login") = 1
    /\ Resolved

SsoProfilesUsed ==
    { n \in DOMAIN profiles :
        /\ is_sso(profiles[n])
        /\ profile # None
        /\ \/ n = Sel.name
           \/ is_role(Sel) /\ Sel.source_profile = Some(n) }

\* C10: whenever an SSO profile is used, as the selected profile or as the source
\* of a selected role, an identity check for that profile comes before any
\* get-session-token or assume-role call of the invocation.
C10_SsoCheckedBeforeResolution ==
    \A i \in CallIdx("get-session-token") \cup CallIdx("assume-role") :
      \A n \in SsoProfilesUsed :
        \E j \in 1..(i - 1) :
          /\ calls[j].op \in {"check_sts_identity", "get_profile_account"}
          /\ calls[j].profile = Some(n)

\* the selected profile's credentials need an MFA code: its own, or its source's
NeedsMfaCode ==
    /\ profile # None
    /\ resolve(Sel, profiles).next \in {"mfa_role", "mfa_profile"}

\* C11: in unattended mode no interactive prompt is ever issued: the profile
\* picker is not shown, the SSO login flow is not run and no MFA code is asked
\* for; an invocation that would need an MFA code does not enter the acquisition
\* and ends with an exit status other than 0 and 1.
C11_UnattendedNeverPrompts ==
    opts.no_interactive
    => /\ NumCalls("select-profile") = 0
       /\ NumCalls("sso-login") = 0
       /\ NumCalls("mfa-prompt") = 0
       /\ NeedsMfaCode
          => /\ pc \notin {"mfa_verify", "mfa_prompt", "get_session_token"}
             /\ pc = "done" => exit_code \notin {Some(0), Some(1)}

\* the process ended at the identity check of the selected SSO profile, in
\* unattended mode, the check not having succeeded: an SSO login is required
SsoLoginRequiredUnattended ==
    /\ pc = "done"
    /\ opts.no_interactive
    /\ last.op = "check_sts_identity"
    /\ last.out # "exit0"

\* the process ended with the prompt loop having used its 3 attempts in vain
MfaRetriesExhausted ==
    /\ pc = "done"
    /\ NumCalls("mfa-prompt") = MaxAttempts
    /\ \A i \in CallIdx("get-session-token") : calls[i].ret = None
    /\ \/ last.op = "get-session-token"
       \/ last.op = "mfa-prompt" /\ last.out = "typed"

\* C12: the exit status is 2 exactly when an SSO login is required in unattended
\* mode, and 3 exactly when the MFA retries are exhausted; this holds of every
\* way the invocation can end, those where the delegate ran included.
C12_ExitCodesDistinguished ==
    pc = "done"
    => /\ exit_code = Some(2) <=> SsoLoginRequiredUnattended
       /\ exit_code = Some(3) <=> MfaRetriesExhausted

C14_ExitStatusTranslation ==
    (pc = "done" /\ child.state = "exited")
    => LET status == unwrap(child.status)
       IN  /\ is_some(status.code) => exit_code = status.code
           /\ status.signal = Some(SIGINT) => exit_code = Some(130)
           /\ status.signal = Some(SIGTERM) => exit_code = Some(143)
           /\ (is_some(status.signal) /\ unwrap(status.signal) \notin {SIGINT, SIGTERM})
              => exit_code = Some(128 + unwrap(status.signal))

\* C14 witness: the delegate was killed by a signal of the wildcard arm.
C14_Witness ==
    /\ pc = "done"
    /\ child = Exited([code |-> None, signal |-> Some(SIGKILL)])
    /\ exit_code = Some(137)

\* the three credential variables of the environment
CredentialVars == {"AWS_ACCESS_KEY_ID", "AWS_SECRET_ACCESS_KEY", "AWS_SESSION_TOKEN"}

\* the profile run_aws_child_capture was called with
Prof == unwrap(profile)

\* the delegate has been spawned
Spawned == is_some(child_env)

ChildEnv == unwrap(child_env)

\* C15: when resolution produced credentials, the delegate's environment holds
\* the access key id, the secret key and the session token of exactly those
\* credentials, whatever the ambient environment and the profile's static keys
\* hold: the ambient values are overridden and the profile's keys are not used.
C15_ResolvedCredentialsInjected ==
    (Spawned /\ is_some(final_creds))
    => /\ get(ChildEnv, "AWS_ACCESS_KEY_ID") = Some(unwrap(final_creds).access_key_id)
       /\ get(ChildEnv, "AWS_SECRET_ACCESS_KEY")
            = Some(unwrap(final_creds).secret_access_key)
       /\ get(ChildEnv, "AWS_SESSION_TOKEN") = Some(unwrap(final_creds).session_token)

\* C15 witness: credentials were resolved while the ambient environment held a
\* non-empty key and the profile held static keys and a session token.
C15_Witness ==
    /\ Spawned
    /\ is_some(final_creds)
    /\ get(environ, "AWS_ACCESS_KEY_ID") = Some(AmbientKeyId)
    /\ get(environ, "AWS_SESSION_TOKEN") = Some(AmbientToken)
    /\ is_static(Prof)
    /\ is_some(Prof.aws_session_token)
    /\ ChildEnv["AWS_ACCESS_KEY_ID"] = unwrap(final_creds).access_key_id

\* the ambient AWS_ACCESS_KEY_ID is set to a non-empty value
AmbientKeyNonEmpty ==
    /\ "AWS_ACCESS_KEY_ID" \in DOMAIN environ
    /\ environ["AWS_ACCESS_KEY_ID"] # << >>

\* C16: with no resolved credentials and a profile holding static keys: when the
\* ambient AWS_ACCESS_KEY_ID is unset or empty, the delegate observes the
\* profile's access key id and secret key, and the profile's session token if
\* the profile defines one (otherwise the session token variable is as in the
\* ambient environment); when the ambient AWS_ACCESS_KEY_ID is non-empty, the
\* delegate observes the three ambient credential variables unchanged.
C16_StaticKeysInjected ==
    (Spawned /\ final_creds = None /\ is_static(Prof))
    => IF AmbientKeyNonEmpty
       THEN \A v \in CredentialVars : get(ChildEnv, v) = get(environ, v)
       ELSE /\ get(ChildEnv, "AWS_ACCESS_KEY_ID") = Prof.aws_access_key_id
            /\ get(ChildEnv, "AWS_SECRET_ACCESS_KEY") = Prof.aws_secret_access_key
            /\ get(ChildEnv, "AWS_SESSION_TOKEN")
                 = IF is_some(Prof.aws_session_token) THEN Prof.aws_session_token
                   ELSE get(environ, "AWS_SESSION_TOKEN")

\* C16 witness: the ambient key is set but empty, and the profile's keys and
\* session token reached the delegate.
C16_Witness ==
    /\ Spawned
    /\ final_creds = None
    /\ is_static(Prof)
    /\ get(environ, "AWS_ACCESS_KEY_ID") = Some(<< >>)
    /\ get(environ, "AWS_SECRET_ACCESS_KEY") = Some(AmbientSecret)
    /\ ChildEnv["AWS_ACCESS_KEY_ID"] = ProfileKeyId
    /\ ChildEnv["AWS_SECRET_ACCESS_KEY"] = ProfileSecret
    /\ get(ChildEnv, "AWS_SESSION_TOKEN") = Some(ProfileToken)

\* the downstream arguments contain an explicit profile flag: an argument equal
\* to "--profile" or beginning with "--profile="
ExplicitProfileFlag ==
    \E i \in DOMAIN opts.aws_args :
        \/ opts.aws_args[i] = ProfileFlag
        \/ /\ Len(opts.aws_args[i]) >= Len(ProfileFlagEq)
           /\ \A j \in 1..Len(ProfileFlagEq) : opts.aws_args[i][j] = ProfileFlagEq[j]

\* C17: the delegate's AWS_PROFILE is the selected profile's name if and only if
\* the downstream arguments contain no explicit profile flag, and then it
\* replaces any ambient value; with an explicit profile flag AWS_PROFILE is as
\* in the ambient environment; this holds with and without resolved credentials.
C17_ProfileVariable ==
    Spawned
    => IF ExplicitProfileFlag
       THEN get(ChildEnv, "AWS_PROFILE") = get(environ, "AWS_PROFILE")
       ELSE get(ChildEnv, "AWS_PROFILE") = Some(Prof.name)

\* C17 witness: credentials were resolved, the ambient AWS_PROFILE named another
\* profile, an argument merely begins with "--profile", and the delegate
\* observes the selected profile's name.
C17_Witness ==
    /\ Spawned
    /\ is_some(final_creds)
    /\ get(environ, "AWS_PROFILE") = Some("prod")
    /\ \E i \in DOMAIN opts.aws_args :
         /\ starts_with(opts.aws_args[i], ProfileFlag)
         /\ opts.aws_args[i] # ProfileFlag
    /\ ChildEnv["AWS_PROFILE"] = "dev"

\* the two region variables of the environment
RegionVars == {"AWS_REGION", "AWS_DEFAULT_REGION"}

\* the downstream arguments contain a region flag: an argument equal to
\* "--region" or of the form "--region=<value>"
ExplicitRegionFlag ==
    \E i \in DOMAIN opts.aws_args :
        \/ opts.aws_args[i] = RegionFlag
        \/ starts_with(opts.aws_args[i], Append(RegionFlag, "="))

\* C18: the profile's region is injected as AWS_DEFAULT_REGION if and only if the
\* profile defines a region, neither region variable is present in the ambient
\* environment and no downstream argument is a region flag; otherwise the
\* delegate's region variables are those of the ambient environment.
C18_RegionInjected ==
    Spawned
    => IF /\ is_some(Prof.region)
          /\ \A v \in RegionVars : v \notin DOMAIN environ
          /\ ~ExplicitRegionFlag
       THEN /\ get(ChildEnv, "AWS_DEFAULT_REGION") = Prof.region
            /\ get(ChildEnv, "AWS_REGION") = None
       ELSE \A v \in RegionVars : get(ChildEnv, v) = get(environ, v)

\* positions in `calls` of the calls that returned the credentials `creds`
Obtained(op, creds) == { i \in CallIdx(op) : calls[i].ret = creds }

\* credential resolution for the selected profile has completed successfully:
\* the decision of run() is not an error, and the credentials it calls for have
\* been returned by the calls that produce them
ResolutionSucceeded ==
    /\ profile # None
    /\ error = None
    /\ LET d == resolve(Sel, profiles)
       IN  /\ d.next # "err"
           /\ d.next = "none" => final_creds = None
           /\ d.next = "mfa_profile"
              => (is_some(final_creds)
                  /\ Obtained("get-session-token", final_creds) # {})
           /\ d.next = "assume_role_with_profile"
              => (is_some(final_creds) /\ Obtained("assume-role", final_creds) # {})
           /\ d.next = "mfa_role"
              => /\ is_some(final_creds)
                 /\ is_some(base_temp)
                 /\ \E i \in Obtained("get-session-token", base_temp) :
                      \E j \in Obtained("assume-role", final_creds) : i < j

\* C19: every error of the set-up and resolution phases (tool missing, no
\* profiles, unknown profile, unknown or missing source, unsupported source,
\* account mismatch, assume-role or login failure) ends the process with exit
\* status 1 and without a delegate; the delegate is spawned only after
\* credential resolution completed successfully, and at most once.
C19_ErrorsExitOneWithoutDelegate ==
    /\ is_some(error)
       => /\ pc = "done"
          /\ exit_code = Some(1)
          /\ NumCalls("spawn") = 0
          /\ child = NoChild
    /\ NumCalls("spawn") <= 1
    /\ NumCalls("spawn") = 1
       => /\ ResolutionSucceeded
          /\ calls[Len(calls)].op = "spawn"
          /\ calls[Len(calls)].env = final_creds
    /\ child # NoChild => NumCalls("spawn") = 1

\* C19 witness: the assume-role call of a role profile failed and the process
\* ended with status 1, no delegate having been spawned.
C19_Witness ==
    /\ pc = "done"
    /\ error = Some("assume-role failed")
    /\ exit_code = Some(1)
    /\ NumCalls("assume-role") = 1
    /\ NumCalls("spawn") = 0

\* the selected profile is a role without a source_profile field, or with one
\* that names no profile of the store
SourceAbsent ==
    /\ profile # None
    /\ is_role(Sel)
    /\ \/ Sel.source_profile = None
       \/ unwrap(Sel.source_profile) \notin DOMAIN profiles

\* C20: when the selected role's source_profile is missing or names an absent
\* profile, resolution fails with the source-profile error: no
\* get-session-token call, no assume-role call, no account lookup and no MFA
\* prompt is ever made, the acquisition and the delegate are never reached, and
\* the failure of resolution is that error, with exit status 1.
C20_AbsentSourceFailsFirst ==
    SourceAbsent
    => /\ NumCalls("get-session-token") = 0
       /\ NumCalls("assume-role") = 0
       /\ NumCalls("mfa-prompt") = 0
       /\ NumCalls("get_profile_account") = 0
       /\ NumCalls("spawn") = 0
       /\ ~InResolution
       /\ ~Resolved
       /\ (pc = "done" /\ last = NoOutcome)
          => /\ exit_code = Some(1)
             /\ error = IF Sel.source_profile = None
                        THEN Some("source_profile missing for role profile")
                        ELSE Some("source_profile not found")

\* C20 witness: the source named by the selected role is absent from the store
\* and resolution has failed with the not-found error.
C20_Witness ==
    /\ SourceAbsent
    /\ Sel.source_profile = Some("prod")
    /\ pc = "done"
    /\ error = Some("source_profile not found")
    /\ calls = << >>

-----------------------------------------------------------------------------
(* A role whose source needs an MFA code, under varying ambient environments *)

\* "dev" is a role whose source "prod" holds static keys and an MFA serial
RoleStore ==
    ("dev" :> Profile("dev", Some("arn:aws:iam::1:role/R"), Some("prod"), None,
                      None, None, None, None))
    @@ ("prod" :> Profile("prod", None, None, Some(ArnWithAccount), None, None,
                          Some(ProfileKeyId), Some(ProfileSecret)))

\* ambient environments with and without credential variables and AWS_PROFILE
RoleEnvirons ==
    { set_env("AWS_ACCESS_KEY_ID", a) @@ set_env("AWS_SECRET_ACCESS_KEY", k)
        @@ set_env("AWS_SESSION_TOKEN", t) @@ set_env("AWS_PROFILE", n) :
        a \in OptStr(AmbientKeyId),
        k \in OptStr(AmbientSecret),
        t \in OptStr(AmbientToken),
        n \in OptStr("prod") }

InitRoleEnv ==
    /\ opts \in ResolutionOpts
    /\ profiles = RoleStore
    /\ environ \in RoleEnvirons
    /\ pc = "start"
    /\ selected_profile_name = None
    /\ profile = None
    /\ mfa_profile = None
    /\ mfa_serial = None
    /\ mfa_caller = None
    /\ attempt = 0
    /\ code = None
    /\ base_temp = None
    /\ final_creds = None
    /\ calls = << >>
    /\ last = NoOutcome
    /\ error = None
    /\ exit_code = None
    /\ child_env = None
    /\ child = NoChild
    /\ pending = {}
    /\ sent = << >>
    /\ taken = None
    /\ call_env = None
    /\ aws_dir = None

\* the steps run() takes for such a role
NextRoleEnv ==
    \/ Setup
    \/ SelectProfile
    \/ Resolve
    \/ MfaVerify
    \/ MfaPrompt
    \/ GetSessionToken
    \/ AssumeRoleWithEnv
    \/ Exec
    \/ ChildExit

SpecRoleEnv == InitRoleEnv /\ [][NextRoleEnv]_vars

\* C21: the assume-role call made with a credential overlay does not depend on
\* the ambient environment: the credential variables it sees are the three
\* fields of the credentials obtained with the MFA code, it carries no profile
\* selector (no profile argument and no AWS_PROFILE variable), and the ambient
\* environment of awx is left as it was.
C21_OverlayCallIndependentOfAmbient ==
    /\ is_some(call_env)
       => /\ get(unwrap(call_env), "AWS_ACCESS_KEY_ID")
               = Some(unwrap(base_temp).access_key_id)
          /\ get(unwrap(call_env), "AWS_SECRET_ACCESS_KEY")
               = Some(unwrap(base_temp).secret_access_key)
          /\ get(unwrap(call_env), "AWS_SESSION_TOKEN")
               = Some(unwrap(base_temp).session_token)
          /\ get(unwrap(call_env), "AWS_PROFILE") = None
    /\ \A i \in CallIdx("assume-role") :
         /\ calls[i].profile = None
         /\ calls[i].env = base_temp
         /\ \E j \in 1..(i - 1) :
              calls[j].op = "get-session-token" /\ calls[j].ret = base_temp

-----------------------------------------------------------------------------
(* load_profiles_from_dir *)

\* lines a file may hold, per file
MaxConfigLines == 3

MaxCredentialsLines == 2

\* section names, as the characters between the brackets
SectionDefault == <<"d", "e", "f", "a", "u", "l", "t">>

SectionProfileDefault == <<"p", "r", "o", "f", "i", "l", "e", " ", "d", "e", "f", "a", "u", "l", "t">>

SectionProfileDev == <<"p", "r", "o", "f", "i", "l", "e", " ", "d", "e", "v">>

SectionDev == <<"d", "e", "v">>

\* "profile "
ProfilePrefix == <<"p", "r", "o", "f", "i", "l", "e", " ">>

\* a line `[name]` and a line `key = value`, as parse_ini tells them apart
SectionLine(name) == [kind |-> "section", name |-> name, key |-> "", val |-> ""]

KeyValueLine(key, val) == [kind |-> "kv", name |-> << >>, key |-> key, val |-> val]

RECURSIVE parse_lines(_, _, _)
\* the loop of parse_ini: a section line sets current_section, a key line is
\* inserted into the map of current_section, which is created on first use
parse_lines(lines, current_section, map) ==
    IF lines = << >> THEN map
    ELSE LET line == Head(lines)
         IN  IF line.kind = "section"
             THEN parse_lines(Tail(lines), line.name, map)
             ELSE LET section == IF current_section \in DOMAIN map
                                 THEN map[current_section] ELSE << >>
                  IN  parse_lines(Tail(lines), current_section,
                                  (current_section :> ((line.key :> line.val) @@ section))
                                      @@ map)

\* parse_ini; current_section starts as "default"
parse_ini(content) == parse_lines(content, SectionDefault, << >>)

\* the prefix is not stripped
config_profile_name_bare(section_name) == section_name

\* `if section_name.starts_with("profile ") { section_name[8..] } else { section_name }`
config_profile_name(section_name) ==
    IF starts_with(section_name, ProfilePrefix)
    THEN SubSeq(section_name, Len(ProfilePrefix) + 1, Len(section_name))
    ELSE section_name

\* prop.get(key).map(to_string), or the value the entry already has
prop_or(prop, key, old) == IF key \in DOMAIN prop THEN Some(prop[key]) ELSE old

\* the `if let Some(..) = prop.get(..)` statements for a config section
apply_config(entry, prop) ==
    [entry EXCEPT !.region         = prop_or(prop, "region", @),
                  !.sso_start_url  = prop_or(prop, "sso_start_url", @),
                  !.sso_region     = prop_or(prop, "sso_region", @),
                  !.role_arn       = prop_or(prop, "role_arn", @),
                  !.source_profile = prop_or(prop, "source_profile", @),
                  !.mfa_serial     = prop_or(prop, "mfa_serial", @)]

\* the `if let Some(..) = prop.get(..)` statements for a credentials section
apply_credentials(entry, prop) ==
    [entry EXCEPT !.aws_access_key_id     = prop_or(prop, "aws_access_key_id", @),
                  !.aws_secret_access_key = prop_or(prop, "aws_secret_access_key", @),
                  !.aws_session_token     = prop_or(prop, "aws_session_token", @)]

\* profiles.entry(name).or_insert_with(|| Profile { name, ..Default::default() })
entry_or_default(store, name) ==
    IF name \in DOMAIN store THEN store[name]
    ELSE Profile(name, None, None, None, None, None, None, None)

RECURSIVE merge_sections(_, _, _, _)
\* one `for (section_name, prop) in conf` loop, the sections visited in `order`
merge_sections(order, conf, store, file) ==
    IF order = << >> THEN store
    ELSE LET section_name == Head(order)
             profile_name == IF file = "config" THEN config_profile_name(section_name)
                             ELSE section_name
             entry == entry_or_default(store, profile_name)
             merged == IF file = "config" THEN apply_config(entry, conf[section_name])
                       ELSE apply_credentials(entry, conf[section_name])
         IN  merge_sections(Tail(order), conf, (profile_name :> merged) @@ store, file)

\* the orders in which a HashMap with the key set S may be iterated
Orders(S) ==
    { order \in [1..Cardinality(S) -> S] :
        \A i, j \in 1..Cardinality(S) : order[i] = order[j] => i = j }

\* what `if path.exists() { .. }` adds to the store for one file
load_file(content, store, file) ==
    IF content = None THEN {store}
    ELSE LET conf == parse_ini(unwrap(content))
         IN  { merge_sections(order, conf, store, file) : order \in Orders(DOMAIN conf) }

\* the stores load_profiles_from_dir can return: config first, then credentials
load_profiles_from_dir(aws) ==
    UNION { load_file(aws.credentials, store, "credentials") :
              store \in load_file(aws.config, << >>, "config") }

\* sequences of at most n elements of S
SeqUpTo(S, n) == UNION { [1..k -> S] : k \in 0..n }

\* lines of a config file: section headers, a region given twice, and a key
\* this file is not read for
ConfigLines ==
    { SectionLine(SectionDefault), SectionLine(SectionProfileDefault),
      SectionLine(SectionProfileDev),
      KeyValueLine("region", "us-west-2"), KeyValueLine("region", "eu-west-1"),
      KeyValueLine("aws_access_key_id", "AKIDCONFIG") }

\* lines of a credentials file
CredentialsLines ==
    { SectionLine(SectionDefault), SectionLine(SectionDev),
      KeyValueLine("aws_access_key_id", "AKID"),
      KeyValueLine("aws_secret_access_key", "SECRET"),
      KeyValueLine("region", "ap-south-1") }

\* the directory: each file absent, or present with some lines
AwsDirs ==
    [ config      : {None} \cup { Some(c) : c \in SeqUpTo(ConfigLines, MaxConfigLines) },
      credentials : {None} \cup { Some(c) : c \in SeqUpTo(CredentialsLines,
                                                          MaxCredentialsLines) } ]

InitLoad ==
    /\ aws_dir \in { Some(d) : d \in AwsDirs }
    /\ profiles = << >>
    /\ pc = "load"
    /\ opts = [profile |-> None, config |-> FALSE, clear_cache |-> None,
               no_interactive |-> FALSE, aws_args |-> << >>]
    /\ environ = << >>
    /\ selected_profile_name = None
    /\ profile = None
    /\ mfa_profile = None
    /\ mfa_serial = None
    /\ mfa_caller = None
    /\ attempt = 0
    /\ code = None
    /\ base_temp = None
    /\ final_creds = None
    /\ calls = << >>
    /\ last = NoOutcome
    /\ error = None
    /\ exit_code = None
    /\ child_env = None
    /\ child = NoChild
    /\ pending = {}
    /\ sent = << >>
    /\ taken = None
    /\ call_env = None

\* load_profiles_from_dir returns a store
LoadProfiles ==
    /\ pc = "load"
    /\ profiles' \in load_profiles_from_dir(unwrap(aws_dir))
    /\ pc' = "loaded"
    /\ UNCHANGED delegate_vars
    /\ UNCHANGED <<call_env, aws_dir>>
    /\ UNCHANGED <<opts, environ, selected_profile_name, profile, mfa_profile,
                   mfa_serial, mfa_caller, attempt, code, base_temp, final_creds,
                   calls, last, error, exit_code>>

NextLoad == LoadProfiles

SpecLoad == InitLoad /\ [][NextLoad]_vars

-----------------------------------------------------------------------------
(* Properties of loading *)

\* the section a line of a file belongs to: that of the nearest section line
\* above it, "default" when there is none
SectionOf(lines, i) ==
    LET above == { h \in 1..(i - 1) : lines[h].kind = "section" }
    IN  IF above = {} THEN SectionDefault
        ELSE lines[CHOOSE h \in above : \A g \in above : g <= h].name

\* a config section name without its "profile " prefix
Stripped(name) ==
    IF Len(name) >= 8 /\ \A j \in 1..8 : name[j] = ProfilePrefix[j]
    THEN [j \in 1..(Len(name) - 8) |-> name[j + 8]]
    ELSE name

\* the settings a file gives: profile name, key and value of each key line
Settings(content, file) ==
    IF content = None THEN {}
    ELSE LET lines == unwrap(content)
         IN  { [profile |-> IF file = "config" THEN Stripped(SectionOf(lines, i))
                            ELSE SectionOf(lines, i),
                key |-> lines[i].key,
                val |-> lines[i].val] : i \in { k \in DOMAIN lines : lines[k].kind = "kv" } }

\* the field `key` of the entry `name` holds `v`: a value the settings S give
\* for it, and None when they give none
FieldFrom(S, name, key, v) ==
    LET vals == { s.val : s \in { t \in S : t.profile = name /\ t.key = key } }
    IN  IF vals = {} THEN v = None ELSE v \in { Some(x) : x \in vals }

ConfigFields ==
    {"region", "sso_start_url", "sso_region", "role_arn", "source_profile", "mfa_serial"}

StaticKeyFields == {"aws_access_key_id", "aws_secret_access_key", "aws_session_token"}

-----------------------------------------------------------------------------
(* extract_account_from_arn over every serial of a bounded length *)

MaxArnLen == 6

\* the characters serials are drawn from: a letter, the separator, a digit
ArnChars == {"a", ":", "1"}

\* every string over ArnChars of at most MaxArnLen characters
ArnSerials == UNION { [1..n -> ArnChars] : n \in 0..MaxArnLen }

\* a profile with static keys and the MFA device `serial`
ArnStore(serial) ==
    "prod" :> Profile("prod", None, None, Some(serial), None, None,
                      Some(ProfileKeyId), Some(ProfileSecret))

InitArn ==
    /\ opts = [ profile |-> Some("prod"), config |-> FALSE, clear_cache |-> None,
                no_interactive |-> TRUE, aws_args |-> << >> ]
    /\ profiles \in { ArnStore(s) : s \in ArnSerials }
    /\ environ = << >>
    /\ pc = "start"
    /\ selected_profile_name = None
    /\ profile = None
    /\ mfa_profile = None
    /\ mfa_serial = None
    /\ mfa_caller = None
    /\ attempt = 0
    /\ code = None
    /\ base_temp = None
    /\ final_creds = None
    /\ calls = << >>
    /\ last = NoOutcome
    /\ error = None
    /\ exit_code = None
    /\ child_env = None
    /\ child = NoChild
    /\ pending = {}
    /\ sent = << >>
    /\ taken = None
    /\ call_env = None
    /\ aws_dir = None

\* run() up to and including the account check of get_session_token_interactive
NextArn ==
    \/ Setup
    \/ SelectProfile
    \/ Resolve
    \/ MfaVerify

SpecArn == InitArn /\ [][NextArn]_vars

\* the positions of the separators of s
Colons(s) == { i \in 1..Len(s) : s[i] = ":" }

\* the position of the k-th separator of s
ColonAt(s, k) ==
    CHOOSE i \in Colons(s) : Cardinality({ j \in Colons(s) : j < i }) = k - 1

\* the fifth colon-delimited field of s, for s of five fields or more: what
\* stands between the fourth separator and the fifth, or the end of s
FifthField(s) ==
    LET from == ColonAt(s, 4) + 1
        to   == IF Cardinality(Colons(s)) >= 5 THEN ColonAt(s, 5) - 1 ELSE Len(s)
    IN  [ j \in 1..(to - from + 1) |-> s[from + j - 1] ]

\* s has five fields or more and a non-empty fifth field
HasAccountField(s) == Cardinality(Colons(s)) >= 4 /\ FifthField(s) # << >>

\* the account check is over
AccountCheckDone == is_some(mfa_serial) /\ pc \in {"mfa_prompt", "done"}

\* C23: extract_account_from_arn gives the fifth colon-delimited field of the
\* serial when the serial has five fields or more and that field is not empty,
\* and nothing otherwise: with such a field the account of the profile is looked
\* up once and resolution fails exactly when the lookup reports an account other
\* than that field; without it no lookup is made and nothing fails.
C23_AccountIsFifthField ==
    AccountCheckDone
    => LET s == unwrap(mfa_serial)
       IN  IF HasAccountField(s)
           THEN /\ NumCalls("get_profile_account") = 1
                /\ is_some(error) <=> /\ last.out = "json"
                                      /\ unwrap(last.account) # FifthField(s)
           ELSE /\ NumCalls("get_profile_account") = 0
                /\ error = None

\* C23 witness: a serial of six fields whose fifth is "1", and a profile whose
\* account is reported as "2": the mismatch is found.
C23_Witness ==
    /\ AccountCheckDone
    /\ unwrap(mfa_serial) = <<":", ":", ":", ":", "1", ":">>
    /\ last.account = Some(<<"2">>)
    /\ is_some(error)

-----------------------------------------------------------------------------
(* Profile selection *)

\* the name the precedence flag > AWS_PROFILE > "default" gives
NameByPrecedence ==
    IF is_some(opts.profile) THEN unwrap(opts.profile)
    ELSE IF is_some(get(environ, "AWS_PROFILE")) THEN environ["AWS_PROFILE"]
    ELSE "default"

\* C24: in interactive and in unattended mode alike, the selected profile name
\* is the -p/--profile value when one is given, otherwise the value of
\* AWS_PROFILE when it is set, otherwise "default".
C24_SelectionPrecedence ==
    is_some(selected_profile_name) => unwrap(selected_profile_name) = NameByPrecedence

-----------------------------------------------------------------------------
(* The resolution phase under fair scheduling *)

\* the identity check awaited like the login flow, without a timeout
has_timeout_not_identity_check(op) == op \notin {"sso-login", "check_sts_identity"}

\* whether the external call `op` is wrapped in tokio::time::timeout: the
\* identity check (5 s), the account lookup (5 s), get-session-token and both
\* assume-role calls (30 s) are; `aws sso login` is awaited without one
has_timeout(op) == op # "sso-login"

\* stores whose profile "dev" is an SSO profile without keys or MFA serial of
\* its own, alone or as a role over a source "prod" that is not an SSO profile
LiveStores ==
    { s \in ResolutionStores :
        /\ is_sso(s["dev"])
        /\ ~is_static(s["dev"])
        /\ s["dev"].mfa_serial = None
        /\ s["dev"].aws_access_key_id = None
        /\ "prod" \in DOMAIN s
           => /\ s["prod"].sso_start_url = None
              /\ s["prod"].sso_region = None
              /\ s["prod"].mfa_serial # Some(SerialNoArn) }

InitLive ==
    /\ opts \in ResolutionOpts
    /\ profiles \in LiveStores
    /\ environ = << >>
    /\ pc = "start"
    /\ selected_profile_name = None
    /\ profile = None
    /\ mfa_profile = None
    /\ mfa_serial = None
    /\ mfa_caller = None
    /\ attempt = 0
    /\ code = None
    /\ base_temp = None
    /\ final_creds = None
    /\ calls = << >>
    /\ last = NoOutcome
    /\ error = None
    /\ exit_code = None
    /\ child_env = None
    /\ child = NoChild
    /\ pending = {}
    /\ sent = << >>
    /\ taken = None
    /\ call_env = None
    /\ aws_dir = None

\* run() from its start to the end of credential resolution
NextLive ==
    \/ Setup
    \/ SelectProfile
    \/ CheckSso
    \/ SsoLogin
    \/ Resolve
    \/ MfaVerify
    \/ MfaPrompt
    \/ GetSessionToken
    \/ AssumeRoleWithEnv
    \/ AssumeRoleWithProfile

\* a local step is taken when it can be; a prompt read returns; an external
\* call comes back when a timeout bounds it, and may never come back otherwise
FairLive ==
    /\ WF_vars(Setup)
    /\ WF_vars(SelectProfile)
    /\ WF_vars(Resolve)
    /\ WF_vars(MfaPrompt)
    /\ IF has_timeout("check_sts_identity") THEN WF_vars(CheckSso) ELSE TRUE
    /\ IF has_timeout("sso-login") THEN WF_vars(SsoLogin) ELSE TRUE
    /\ IF has_timeout("get_profile_account") THEN WF_vars(MfaVerify) ELSE TRUE
    /\ IF has_timeout("get-session-token") THEN WF_vars(GetSessionToken) ELSE TRUE
    /\ IF has_timeout("assume-role")
       THEN WF_vars(AssumeRoleWithEnv) /\ WF_vars(AssumeRoleWithProfile)
       ELSE TRUE

SpecLive == InitLive /\ [][NextLive]_vars /\ FairLive

\* the resolution phase is over: credentials or none are at hand for the
\* delegate runner, or run() has returned, or the process has exited
PhaseEnded == pc \in {"exec", "done"}

\* C25 (as stated): provided every prompt read returns, the resolution phase
\* eventually ends, whatever the external CLI does.
C25_ResolutionEnds == <>PhaseEnded

\* C25 (amended): provided every prompt read returns, the resolution phase
\* eventually ends unless `aws sso login` never comes back.
C25_ResolutionEndsUnlessLoginHangs == <>[](pc = "sso_login") \/ <>PhaseEnded

\* C25 witness: the login flow has come back and resolution has gone on to its
\* end with credentials.
C25_Witness ==
    /\ PhaseEnded
    /\ NumCalls("sso-login") = 1
    /\ is_some(final_creds)

-----------------------------------------------------------------------------
(* Where the delegate's credential variables come from *)

\* what the delegate sees of a variable
Seen(v) == get(ChildEnv, v)

\* the field of the profile that goes with a credential variable
StaticField(v) ==
    CASE v = "AWS_ACCESS_KEY_ID"     -> Prof.aws_access_key_id
      [] v = "AWS_SECRET_ACCESS_KEY" -> Prof.aws_secret_access_key
      [] v = "AWS_SESSION_TOKEN"     -> Prof.aws_session_token

\* the field of the resolved credentials that goes with a credential variable
ResolvedField(v) ==
    CASE v = "AWS_ACCESS_KEY_ID"     -> unwrap(final_creds).access_key_id
      [] v = "AWS_SECRET_ACCESS_KEY" -> unwrap(final_creds).secret_access_key
      [] v = "AWS_SESSION_TOKEN"     -> unwrap(final_creds).session_token

\* C26: the three credential variables the delegate sees all come from one
\* source: all three are the fields of the resolved credentials, or all three
\* are what the profile's static fields hold, or all three are what the ambient
\* environment holds.
C26_CredentialsFromOneSource ==
    Spawned
    => \/ is_some(final_creds) /\ \A v \in CredentialVars : Seen(v) = Some(ResolvedField(v))
       \/ \A v \in CredentialVars : Seen(v) = StaticField(v)
       \/ \A v \in CredentialVars : Seen(v) = get(environ, v)

-----------------------------------------------------------------------------
(* The runner's return and the delegate's exit *)

\* the runtime polls a future that is ready: the spawn, select! and the wait of
\* a signal branch go on when they can; nothing is assumed of the delegate or
\* of the signals
FairChild ==
    /\ WF_vars(Exec)
    /\ WF_vars(Select)
    /\ WF_vars(WaitAfterSignal)

SpecChildLive == InitChild /\ [][NextChild]_vars /\ FairChild

\* run_aws_child_capture has returned an exit code
RunnerReturned == Spawned /\ pc = "done"

\* C27: the runner returns an exit code only once the delegate has exited,
\* whether or not a signal was forwarded; it never sends SIGKILL; and once the
\* delegate has exited the runner eventually returns. (A delegate that never
\* exits therefore keeps the invocation from ever ending.)
C27_ReturnsExactlyWhenChildExits ==
    /\ [](RunnerReturned => child.state = "exited")
    /\ [](\A i \in 1..Len(sent) : sent[i] # SIGKILL)
    /\ (Spawned /\ child.state = "exited") ~> RunnerReturned

\* C27 witness: a signal was forwarded, the delegate exited afterwards and the
\* runner has returned.
C27_Witness ==
    /\ RunnerReturned
    /\ Len(sent) = 1
    /\ child.state = "exited"

-----------------------------------------------------------------------------
(* An invocation without downstream arguments *)

NoArgs == opts.aws_args = << >>

\* C29: without downstream arguments no delegate is ever spawned and nothing is
\* handed the resolved credentials; the invocation ends with status 0 when
\* credential resolution has succeeded and, unless -c or --clear-cache was
\* given, only then:
\* the SSO handling and the resolution are those of an invocation with
\* arguments, their calls, prompts and exits included.
C29_NoArgsResolvesWithoutDelegate ==
    NoArgs
    => /\ NumCalls("spawn") = 0
       /\ child = NoChild
       /\ child_env = None
       /\ (pc = "done" /\ ResolutionSucceeded /\ exit_code \notin {Some(2), Some(3)})
          => exit_code = Some(0)
       /\ (pc = "done" /\ exit_code = Some(0) /\ ~opts.config /\ opts.clear_cache = None)
          => ResolutionSucceeded

\* C29 witness: without arguments, a role over an MFA-protected source was
\* resolved (code prompted for, session token and role credentials obtained)
\* and the invocation ended with status 0 and no delegate.
C29_Witness ==
    /\ NoArgs
    /\ pc = "done"
    /\ exit_code = Some(0)
    /\ is_some(final_creds)
    /\ NumCalls("mfa-prompt") >= 1
    /\ NumCalls("get-session-token") >= 1
    /\ NumCalls("assume-role") = 1
    /\ NumCalls("spawn") = 0

====
